---- MODULE Spec2Model ----
(***************************************************************************)
(* CategoryService (backend/src/services/categoryService.ts) over the      *)
(* Category table.  Every service call is a sequence of store calls; each  *)
(* store call is one atomic step, and calls of different clients           *)
(* interleave at these steps.                                              *)
(***************************************************************************)
EXTENDS Integers, Sequences, FiniteSets, TLC

VARIABLES rows, fresh, now, pc, op, arg, ret, calls

vars == <<rows, fresh, now, pc, op, arg, ret, calls>>

(* ------------------------------ bounds -------------------------------- *)

\* number of clients issuing service calls
NumProcs == 2
\* number of rows the store ever creates (ids are never reused)
MaxId == 2
\* largest page number / page size a client asks for
MaxPage == 3
MaxPageSize == 2

Procs == 1..NumProcs
Ids == 1..MaxId

(* ------------------------------ values -------------------------------- *)

\* a string is a sequence of characters; "W" is the upper case of "w"
Undefined == "undefined"
NullTenant == "null"
NullText == <<"null">>
NoText == <<"undefined">>

Max(a, b) == IF a >= b THEN a ELSE b
Min(a, b) == IF a <= b THEN a ELSE b

IsSpace(c) == c = " "

ToLowerChar(c) == IF c = "W" THEN "w" ELSE IF c = "B" THEN "b" ELSE c

ToLower(s) == [i \in 1..Len(s) |-> ToLowerChar(s[i])]

RECURSIVE TrimStart(_)
TrimStart(s) == IF s # <<>> /\ IsSpace(Head(s)) THEN TrimStart(Tail(s)) ELSE s

RECURSIVE TrimEnd(_)
TrimEnd(s) ==
    IF s # <<>> /\ IsSpace(s[Len(s)]) THEN TrimEnd(SubSeq(s, 1, Len(s) - 1)) ELSE s

Trim(s) == TrimEnd(TrimStart(s))

\* (a variant without mode: 'insensitive')
EqualsInsensitive_Exact(a, b) == a = b

\* mode: 'insensitive' equality of the store
EqualsInsensitive(a, b) == ToLower(a) = ToLower(b)

\* mode: 'insensitive' substring containment of the store; a null column never matches
ContainsInsensitive(hay, needle) ==
    /\ hay # NullText
    /\ \E i \in 0..(Len(hay) - Len(needle)) :
          ToLower(SubSeq(hay, i + 1, i + Len(needle))) = ToLower(needle)

\* data.descricao || null
OrNull(d) == IF d = NoText \/ d = <<>> THEN NullText ELSE d

\* Math.ceil(total / pageSize)
Ceil(a, b) == IF a % b = 0 THEN a \div b ELSE (a \div b) + 1

DefaultColors ==
    << "#1e3a5f", "#4a9eff", "#10B981", "#F59E0B", "#EF4444",
       "#8B5CF6", "#F97316", "#06B6D4", "#84CC16", "#EC4899" >>

\* defaultColors[Math.floor(Math.random() * defaultColors.length)], Math.random() = rnd / 10
RandomColor(rnd) == DefaultColors[((rnd * Len(DefaultColors)) \div 10) + 1]

NotFoundMsg == "Categoria nao encontrada"
ValidationMsg == "Nome da categoria e obrigatorio"

(* ------------------------- the Category table ------------------------- *)

Row(id, nome, cor, descricao, tenantId, criadoEm) ==
    [id |-> id, nome |-> nome, cor |-> cor, descricao |-> descricao,
     tenantId |-> tenantId, criadoEm |-> criadoEm]

\* the column written for an absent tenantId
StoredTenant(tenantId) == IF tenantId = Undefined THEN NullTenant ELSE tenantId

\* (a variant of the rule that compares nome case-sensitively)
UniqueViolation_CaseSensitive(table, nome, tenantId, selfId) ==
    \E r \in table : r.id # selfId /\ r.tenantId = tenantId /\ r.nome = nome

\* the uniqueness rule of the table: (tenantId, nome) compared case-insensitively
UniqueViolation(table, nome, tenantId, selfId) ==
    \E r \in table :
        /\ r.id # selfId
        /\ r.tenantId = tenantId
        /\ EqualsInsensitive(r.nome, nome)

\* (a variant that takes an absent tenantId for the filter tenantId: null)
InScope_NullOnly(r, tenantId) == r.tenantId = StoredTenant(tenantId)

\* (a variant that never filters by tenant)
InScope_Any(r, tenantId) == TRUE

\* if (tenantId !== undefined) where.tenantId = tenantId
InScope(r, tenantId) == tenantId = Undefined \/ r.tenantId = tenantId

\* (a variant that forgets the tenant filter)
ById_Unscoped(table, id, tenantId) == {r \in table : r.id = id}

\* where = { id, tenantId? }
ById(table, id, tenantId) == {r \in table : r.id = id /\ InScope(r, tenantId)}

\* (a variant that leaves the tenant filter out of the name lookup)
ByNameInsensitive_AnyTenant(table, nomeTrimmed, tenantId) ==
    {r \in table : EqualsInsensitive(r.nome, nomeTrimmed)}

\* where = { nome: { equals: nomeTrimmed, mode: 'insensitive' }, tenantId? }
ByNameInsensitive(table, nomeTrimmed, tenantId) ==
    {r \in table : EqualsInsensitive(r.nome, nomeTrimmed) /\ InScope(r, tenantId)}

\* fallbackWhere = { nome: nomeTrimmed, tenantId? }
ByNameExact(table, nomeTrimmed, tenantId) ==
    {r \in table : r.nome = nomeTrimmed /\ InScope(r, tenantId)}

\* where of getCategories: tenant filter and, if (search), nome OR descricao contains
Listed(table, search, tenantId) ==
    {r \in table :
        /\ InScope(r, tenantId)
        /\ \/ search = NoText
           \/ search = <<>>
           \/ ContainsInsensitive(r.nome, ToLower(search))
           \/ ContainsInsensitive(r.descricao, ToLower(search))}

\* orderBy: { criadoEm: 'desc' }: every order of S the sort key allows
OrderedDesc(S) ==
    {s \in [1..Cardinality(S) -> S] :
        /\ \A i, j \in DOMAIN s : i # j => s[i] # s[j]
        /\ \A i, j \in DOMAIN s : i < j => s[i].criadoEm >= s[j].criadoEm}

\* skip, take
Slice(s, skip, take) == SubSeq(s, skip + 1, Min(Len(s), skip + take))

(* --------------------------- calls in flight --------------------------- *)

Args(id, nome, cor, descricao, tenantId, search, page, pageSize) ==
    [id |-> id, nome |-> nome, cor |-> cor, descricao |-> descricao,
     tenantId |-> tenantId, search |-> search, page |-> page, pageSize |-> pageSize]

NoArgs == Args(0, <<>>, "", NoText, Undefined, NoText, 0, 0)

NoRet == [kind |-> "none", id |-> 0, err |-> "", categories |-> <<>>,
          total |-> 0, totalPages |-> 0, page |-> 0, pageSize |-> 0]

Threw(msg) == [NoRet EXCEPT !.kind = "error", !.err = msg]
ReturnedId(id) == [NoRet EXCEPT !.kind = "id", !.id = id]
ReturnedRow(r) == [NoRet EXCEPT !.kind = "row", !.id = r.id, !.categories = <<r>>]
ReturnedRows(s) == [NoRet EXCEPT !.kind = "rows", !.categories = s]
ReturnedVoid == [NoRet EXCEPT !.kind = "void"]

Init ==
    /\ rows = {}
    /\ fresh = Ids
    /\ now = 0
    /\ pc = [p \in Procs |-> "idle"]
    /\ op = [p \in Procs |-> "none"]
    /\ arg = [p \in Procs |-> NoArgs]
    /\ ret = [p \in Procs |-> NoRet]
    /\ calls = [p \in Procs |-> <<>>]

\* a call begins: its arguments are bound
Begin(p, name, a) ==
    /\ pc[p] \in {"idle", "done"}
    /\ op' = [op EXCEPT ![p] = name]
    /\ arg' = [arg EXCEPT ![p] = a]

\* a call of p continues with its next store call
Continue(p, at) ==
    /\ pc[p] = at
    /\ UNCHANGED <<op, arg>>

\* the call of p returns or throws; log: the store calls it has made
Finish(p, r, log) ==
    /\ pc' = [pc EXCEPT ![p] = "done"]
    /\ ret' = [ret EXCEPT ![p] = r]
    /\ calls' = [calls EXCEPT ![p] = log]

\* the call of p awaits its next store call
Await(p, at, r, log) ==
    /\ pc' = [pc EXCEPT ![p] = at]
    /\ ret' = [ret EXCEPT ![p] = r]
    /\ calls' = [calls EXCEPT ![p] = log]

\* a store call that leaves the table as it is
Reads == UNCHANGED <<rows, fresh, now>>

\* prisma.category.create: the row gets an id no row has had (fresh: the ids the
\* store has not handed out yet) and the creation time
\* (tick: whether the clock has advanced since the last creation)
Insert(nome, cor, descricao, tenantId, tick) ==
    /\ fresh # {}
    /\ LET id == CHOOSE i \in fresh : \A j \in fresh : i <= j
       IN  /\ rows' = rows \cup {Row(id, nome, cor, descricao,
                                      StoredTenant(tenantId), now + tick)}
           /\ fresh' = fresh \ {id}
    /\ now' = now + tick

(* ------------------------------ operations ----------------------------- *)

\* getCategoryById: findFirst({ id, tenantId? }), or throw
GetCategoryById(p, id, tenantId) ==
    /\ Begin(p, "getCategoryById", [NoArgs EXCEPT !.id = id, !.tenantId = tenantId])
    /\ Reads
    /\ IF ById(rows, id, tenantId) = {}
       THEN Finish(p, Threw(NotFoundMsg), <<"findFirst">>)
       ELSE \E r \in ById(rows, id, tenantId) : Finish(p, ReturnedRow(r), <<"findFirst">>)

\* getAllCategories: findMany({ where, orderBy })
GetAllCategories(p, tenantId) ==
    /\ Begin(p, "getAllCategories", [NoArgs EXCEPT !.tenantId = tenantId])
    /\ Reads
    /\ \E s \in OrderedDesc({r \in rows : InScope(r, tenantId)}) :
          Finish(p, ReturnedRows(s), <<"findMany">>)

\* (a variant that recovers from P2002 the way findOrCreateCategoryByName does)
CreateCategory_Recovering(p, data, tenantId, tick) ==
    /\ Begin(p, "createCategory",
             [NoArgs EXCEPT !.nome = data.nome, !.cor = data.cor,
                            !.descricao = data.descricao, !.tenantId = tenantId])
    /\ IF UniqueViolation(rows, data.nome, StoredTenant(tenantId), 0)
       THEN /\ Reads
            /\ \E r \in ByNameInsensitive(rows, data.nome, tenantId) :
                  Finish(p, ReturnedRow(r), <<"create", "findFirst">>)
       ELSE /\ Insert(data.nome, data.cor, OrNull(data.descricao), tenantId, tick)
            /\ \E r \in rows' \ rows : Finish(p, ReturnedRow(r), <<"create">>)

\* createCategory: one create, whose failure is not caught
CreateCategory(p, data, tenantId, tick) ==
    /\ Begin(p, "createCategory",
             [NoArgs EXCEPT !.nome = data.nome, !.cor = data.cor,
                            !.descricao = data.descricao, !.tenantId = tenantId])
    /\ IF UniqueViolation(rows, data.nome, StoredTenant(tenantId), 0)
       THEN /\ Reads
            /\ Finish(p, Threw("P2002"), <<"create">>)
       ELSE /\ Insert(data.nome, data.cor, OrNull(data.descricao), tenantId, tick)
            /\ \E r \in rows' \ rows : Finish(p, ReturnedRow(r), <<"create">>)

\* updateCategory, up to the existence check: findFirst({ id, tenantId? })
UpdateCategory(p, id, data, tenantId) ==
    /\ Begin(p, "updateCategory",
             [NoArgs EXCEPT !.id = id, !.nome = data.nome, !.cor = data.cor,
                            !.descricao = data.descricao, !.tenantId = tenantId])
    /\ Reads
    /\ IF ById(rows, id, tenantId) = {}
       THEN Finish(p, Threw(NotFoundMsg), <<"findFirst">>)
       ELSE Await(p, "update", NoRet, <<"findFirst">>)

\* (a variant that replaces the row by the input, losing its tenantId)
Updated_Replace(old, a) ==
    Row(old.id, a.nome, a.cor, OrNull(a.descricao), NullTenant, old.criadoEm)

\* the row update({ where: { id }, data: { nome, cor, descricao } }) writes
Updated(old, a) ==
    [old EXCEPT !.nome = a.nome, !.cor = a.cor, !.descricao = OrNull(a.descricao)]

\* (a variant whose write creates the row when it is gone)
UpdateCategoryWrite_Upsert(p) ==
    /\ Continue(p, "update")
    /\ LET a == arg[p]
           hit == {r \in rows : r.id = a.id}
           made == Row(a.id, a.nome, a.cor, OrNull(a.descricao), StoredTenant(a.tenantId), now)
       IN  IF hit = {}
           THEN /\ rows' = rows \cup {made}
                /\ UNCHANGED <<fresh, now>>
                /\ Finish(p, ReturnedRow(made), Append(calls[p], "update"))
           ELSE \E old \in hit :
                  IF UniqueViolation(rows, a.nome, old.tenantId, old.id)
                  THEN /\ Reads
                       /\ Finish(p, Threw("P2002"), Append(calls[p], "update"))
                  ELSE /\ rows' = (rows \ {old}) \cup {Updated(old, a)}
                       /\ UNCHANGED <<fresh, now>>
                       /\ Finish(p, ReturnedRow(Updated(old, a)),
                                 Append(calls[p], "update"))

\* updateCategory, the write
UpdateCategoryWrite(p) ==
    /\ Continue(p, "update")
    /\ LET a == arg[p]
           hit == {r \in rows : r.id = a.id}
       IN  IF hit = {}
           THEN /\ Reads
                /\ Finish(p, Threw("P2025"), Append(calls[p], "update"))
           ELSE \E old \in hit :
                  IF UniqueViolation(rows, a.nome, old.tenantId, old.id)
                  THEN /\ Reads
                       /\ Finish(p, Threw("P2002"), Append(calls[p], "update"))
                  ELSE /\ rows' = (rows \ {old}) \cup {Updated(old, a)}
                       /\ UNCHANGED <<fresh, now>>
                       /\ Finish(p, ReturnedRow(Updated(old, a)),
                                 Append(calls[p], "update"))

\* (a variant that deletes without the existence check)
DeleteCategory_Unchecked(p, id, tenantId) ==
    /\ Begin(p, "deleteCategory", [NoArgs EXCEPT !.id = id, !.tenantId = tenantId])
    /\ Reads
    /\ Await(p, "delete", NoRet, <<>>)

\* deleteCategory, up to the existence check: findFirst({ id, tenantId? })
DeleteCategory(p, id, tenantId) ==
    /\ Begin(p, "deleteCategory", [NoArgs EXCEPT !.id = id, !.tenantId = tenantId])
    /\ Reads
    /\ IF ById(rows, id, tenantId) = {}
       THEN Finish(p, Threw(NotFoundMsg), <<"findFirst">>)
       ELSE Await(p, "delete", NoRet, <<"findFirst">>)

\* deleteCategory, the write: delete({ where: { id } })
DeleteCategoryWrite(p) ==
    /\ Continue(p, "delete")
    /\ LET hit == {r \in rows : r.id = arg[p].id}
       IN  IF hit = {}
           THEN /\ Reads
                /\ Finish(p, Threw("P2025"), Append(calls[p], "delete"))
           ELSE /\ rows' = rows \ hit
                /\ UNCHANGED <<fresh, now>>
                /\ Finish(p, ReturnedVoid, Append(calls[p], "delete"))

\* (a variant that rounds totalPages down)
CategoriesResponse_Floor(categories, total, page, pageSize) ==
    [NoRet EXCEPT !.kind = "page", !.categories = categories, !.total = total,
                  !.page = page, !.pageSize = pageSize,
                  !.totalPages = total \div pageSize]

\* the object getCategories returns
CategoriesResponse(categories, total, page, pageSize) ==
    [NoRet EXCEPT !.kind = "page", !.categories = categories, !.total = total,
                  !.page = page, !.pageSize = pageSize,
                  !.totalPages = Ceil(total, pageSize)]

\* (a variant that skips page * pageSize rows)
FindManyPage_SkipPage(table, a) ==
    {Slice(s, a.page * a.pageSize, a.pageSize) :
        s \in OrderedDesc(Listed(table, a.search, a.tenantId))}

\* findMany({ where, orderBy, skip: (page - 1) * pageSize, take: pageSize })
FindManyPage(table, a) ==
    {Slice(s, (a.page - 1) * a.pageSize, a.pageSize) :
        s \in OrderedDesc(Listed(table, a.search, a.tenantId))}

\* count({ where })
Count(table, a) == Cardinality(Listed(table, a.search, a.tenantId))

\* getCategories, up to the first of its two reads, which the store serves in either order
GetCategories(p, search, page, pageSize, tenantId) ==
    LET a == [NoArgs EXCEPT !.search = search, !.page = page, !.pageSize = pageSize,
                            !.tenantId = tenantId]
    IN  /\ Begin(p, "getCategories", a)
        /\ Reads
        /\ \/ \E c \in FindManyPage(rows, a) :
                 Await(p, "count", [NoRet EXCEPT !.categories = c], <<"findMany">>)
           \/ Await(p, "findMany", [NoRet EXCEPT !.total = Count(rows, a)], <<"count">>)

\* getCategories, the count read second
GetCategoriesCount(p) ==
    /\ Continue(p, "count")
    /\ Reads
    /\ Finish(p, CategoriesResponse(ret[p].categories, Count(rows, arg[p]),
                                    arg[p].page, arg[p].pageSize),
              Append(calls[p], "count"))

\* getCategories, the page read second
GetCategoriesFindMany(p) ==
    /\ Continue(p, "findMany")
    /\ Reads
    /\ \E c \in FindManyPage(rows, arg[p]) :
          Finish(p, CategoriesResponse(c, ret[p].total, arg[p].page, arg[p].pageSize),
                 Append(calls[p], "findMany"))

\* (a variant that forgets to trim)
Blank_NoTrim(nome) == nome = <<>>

\* if (!nome || !nome.trim())
Blank(nome) == nome = <<>> \/ Trim(nome) = <<>>

\* (a variant that writes the requested name into the row it finds)
FindOrCreateCategoryByName_Renames(p, nome, tenantId) ==
    /\ Begin(p, "findOrCreate", [NoArgs EXCEPT !.nome = nome, !.tenantId = tenantId])
    /\ IF Blank(nome)
       THEN Reads /\ Finish(p, Threw(ValidationMsg), <<>>)
       ELSE LET found == ByNameInsensitive(rows, Trim(nome), tenantId)
            IN  IF found # {}
                THEN \E r \in found :
                       /\ rows' = (rows \ {r}) \cup {[r EXCEPT !.nome = Trim(nome)]}
                       /\ UNCHANGED <<fresh, now>>
                       /\ Finish(p, ReturnedId(r.id), <<"findFirst">>)
                ELSE Reads /\ Await(p, "create", NoRet, <<"findFirst">>)

\* (a variant that inserts without looking the name up first)
FindOrCreateCategoryByName_NoLookup(p, nome, tenantId) ==
    /\ Begin(p, "findOrCreate", [NoArgs EXCEPT !.nome = nome, !.tenantId = tenantId])
    /\ Reads
    /\ IF Blank(nome)
       THEN Finish(p, Threw(ValidationMsg), <<>>)
       ELSE Await(p, "create", NoRet, <<>>)

\* findOrCreateCategoryByName, up to the first lookup
FindOrCreateCategoryByName(p, nome, tenantId) ==
    /\ Begin(p, "findOrCreate", [NoArgs EXCEPT !.nome = nome, !.tenantId = tenantId])
    /\ Reads
    /\ IF Blank(nome)
       THEN Finish(p, Threw(ValidationMsg), <<>>)
       ELSE LET found == ByNameInsensitive(rows, Trim(nome), tenantId)
            IN  IF found # {}
                THEN \E r \in found : Finish(p, ReturnedId(r.id), <<"findFirst">>)
                ELSE Await(p, "create", NoRet, <<"findFirst">>)

\* findOrCreateCategoryByName, the insert; P2002 is caught
FindOrCreateInsert(p, rnd, tick) ==
    /\ Continue(p, "create")
    /\ LET nomeTrimmed == Trim(arg[p].nome)
           tenantId == arg[p].tenantId
       IN  IF UniqueViolation(rows, nomeTrimmed, StoredTenant(tenantId), 0)
           THEN /\ Reads
                /\ Await(p, "recover", NoRet, Append(calls[p], "create"))
           ELSE /\ Insert(nomeTrimmed, RandomColor(rnd), NullText, tenantId, tick)
                /\ \E r \in rows' \ rows :
                      Finish(p, ReturnedId(r.id), Append(calls[p], "create"))

\* (a variant whose catch block starts the recovery whatever the error is)
FindOrCreateInsertFails_Recovers(p, code) ==
    /\ Continue(p, "create")
    /\ Reads
    /\ Await(p, "recover", NoRet, Append(calls[p], "create"))

\* findOrCreateCategoryByName, the insert when the store call fails with an error of
\* the given code and writes nothing: catch (error) { if (error.code === 'P2002') ...
\* throw error }
FindOrCreateInsertFails(p, code) ==
    /\ Continue(p, "create")
    /\ Reads
    /\ IF code = "P2002"
       THEN Await(p, "recover", NoRet, Append(calls[p], "create"))
       ELSE Finish(p, Threw(code), Append(calls[p], "create"))

\* (a variant that rethrows P2002 without looking the row up)
FindOrCreateRecover_Rethrow(p) ==
    /\ Continue(p, "recover")
    /\ Reads
    /\ Finish(p, Threw("P2002"), calls[p])

\* findOrCreateCategoryByName after P2002: the first lookup again
FindOrCreateRecover(p) ==
    /\ Continue(p, "recover")
    /\ Reads
    /\ LET found == ByNameInsensitive(rows, Trim(arg[p].nome), arg[p].tenantId)
       IN  IF found # {}
           THEN \E r \in found : Finish(p, ReturnedId(r.id), Append(calls[p], "findFirst"))
           ELSE Await(p, "fallback", NoRet, Append(calls[p], "findFirst"))

\* (a variant that tries the insert again when the exact lookup finds nothing)
FindOrCreateFallback_Reinsert(p) ==
    /\ Continue(p, "fallback")
    /\ Reads
    /\ LET found == ByNameExact(rows, Trim(arg[p].nome), arg[p].tenantId)
       IN  IF found # {}
           THEN \E r \in found :
                  Finish(p, ReturnedId(r.id), Append(calls[p], "findFirstExact"))
           ELSE Await(p, "create", NoRet, Append(calls[p], "findFirstExact"))

\* findOrCreateCategoryByName after P2002: the exact lookup, then throw error
FindOrCreateFallback(p) ==
    /\ Continue(p, "fallback")
    /\ Reads
    /\ LET found == ByNameExact(rows, Trim(arg[p].nome), arg[p].tenantId)
       IN  IF found # {}
           THEN \E r \in found :
                  Finish(p, ReturnedId(r.id), Append(calls[p], "findFirstExact"))
           ELSE Finish(p, Threw("P2002"), Append(calls[p], "findFirstExact"))

(* ---------------------------- what clients ask -------------------------- *)

\* CategoryInput
Input(nome, cor, descricao) == [nome |-> nome, cor |-> cor, descricao |-> descricao]

Tenants == {"A", "B"}
FocNames == {<<" ">>, <<"w">>, <<"W", " ">>}
Inputs == {Input(<<"W">>, "#FF0000", NoText), Input(<<"b">>, "#00FF00", <<"w">>)}
RandomDraws == {0, 9}

Searches == {NoText, <<"W">>}
Pages == 1..MaxPage
PageSizes == 1..MaxPageSize

\* Two clients interleave the operations that write the table.
Pair == {1, 2}

Next ==
    \E p \in Pair :
        \/ \E d \in Inputs, t \in Tenants : CreateCategory(p, d, t, 1)
        \/ \E i \in Ids, d \in Inputs, t \in Tenants : UpdateCategory(p, i, d, t)
        \/ UpdateCategoryWrite(p)
        \/ \E i \in Ids, t \in Tenants : DeleteCategory(p, i, t)
        \/ DeleteCategoryWrite(p)
        \/ \E n \in FocNames, t \in Tenants : FindOrCreateCategoryByName(p, n, t)
        \/ \E rnd \in RandomDraws : FindOrCreateInsert(p, rnd, 1)
        \/ FindOrCreateRecover(p)
        \/ FindOrCreateFallback(p)

Spec == Init /\ [][Next]_vars

\* One client makes its calls one after the other: every operation of the service,
\* every search, page and page size, creation times that may coincide.
NextSeq ==
    \/ \E i \in Ids, t \in Tenants : GetCategoryById(1, i, t)
    \/ \E t \in Tenants : GetAllCategories(1, t)
    \/ \E d \in Inputs, t \in Tenants, k \in {0, 1} : CreateCategory(1, d, t, k)
    \/ \E i \in Ids, d \in Inputs, t \in Tenants : UpdateCategory(1, i, d, t)
    \/ UpdateCategoryWrite(1)
    \/ \E i \in Ids, t \in Tenants : DeleteCategory(1, i, t)
    \/ DeleteCategoryWrite(1)
    \/ \E s \in Searches, g \in Pages, z \in PageSizes, t \in Tenants :
          GetCategories(1, s, g, z, t)
    \/ GetCategoriesCount(1)
    \/ GetCategoriesFindMany(1)
    \/ \E n \in FocNames \cup {<<>>}, t \in Tenants : FindOrCreateCategoryByName(1, n, t)
    \/ \E rnd \in RandomDraws, k \in {0, 1} : FindOrCreateInsert(1, rnd, k)

SpecSeq == Init /\ [][NextSeq]_vars

\* All clients call findOrCreateCategoryByName at once, and nothing else runs.
NextRace ==
    \E p \in Procs :
        \/ \E n \in FocNames, t \in Tenants : FindOrCreateCategoryByName(p, n, t)
        \/ \E rnd \in RandomDraws : FindOrCreateInsert(p, rnd, 1)
        \/ FindOrCreateRecover(p)

SpecRace == Init /\ [][NextRace]_vars

\* One client fills and lists a table of up to MaxId + 1 rows, whose creation times
\* may coincide: tenant A gets rows of every name, tenant B a row of one of the names.
PageInputs ==
    {Input(<<"W">>, "#FF0000", NoText), Input(<<"b">>, "#00FF00", <<"w">>),
     Input(<<"b", "W">>, "#FF0000", <<>>)}

InitPage ==
    /\ rows = {}
    /\ fresh = 1..(MaxId + 1)
    /\ now = 0
    /\ pc = [p \in Procs |-> "idle"]
    /\ op = [p \in Procs |-> "none"]
    /\ arg = [p \in Procs |-> NoArgs]
    /\ ret = [p \in Procs |-> NoRet]
    /\ calls = [p \in Procs |-> <<>>]

NextPage ==
    \/ \E d \in PageInputs, k \in {0, 1} : CreateCategory(1, d, "A", k)
    \/ \E k \in {0, 1} : CreateCategory(1, Input(<<"W">>, "#FF0000", NoText), "B", k)
    \/ \E s \in Searches, g \in Pages, z \in PageSizes, t \in Tenants :
          GetCategories(1, s, g, z, t)
    \/ GetCategoriesCount(1)
    \/ GetCategoriesFindMany(1)

SpecPage == InitPage /\ [][NextPage]_vars

\* A super-admin (tenantId undefined) works, one call after the other, on a table that
\* tenants fill with createCategory.
NextAdmin ==
    \/ \E d \in Inputs, t \in Tenants : CreateCategory(1, d, t, 1)
    \/ \E i \in Ids : GetCategoryById(1, i, Undefined)
    \/ GetAllCategories(1, Undefined)
    \/ \E i \in Ids, d \in Inputs : UpdateCategory(1, i, d, Undefined)
    \/ UpdateCategoryWrite(1)
    \/ \E i \in Ids : DeleteCategory(1, i, Undefined)
    \/ DeleteCategoryWrite(1)
    \/ \E s \in Searches, g \in Pages, z \in PageSizes : GetCategories(1, s, g, z, Undefined)
    \/ GetCategoriesCount(1)
    \/ GetCategoriesFindMany(1)
    \/ \E n \in FocNames : FindOrCreateCategoryByName(1, n, Undefined)
    \/ \E rnd \in RandomDraws : FindOrCreateInsert(1, rnd, 1)

SpecAdmin == Init /\ [][NextAdmin]_vars

\* error codes of a store call that fails for a reason other than the uniqueness rule
\* (no connection, timed out)
StoreErrors == {"P1001", "P2024"}

\* Two clients create and find-or-create while the store may fail any insert of
\* findOrCreateCategoryByName.
NextFault ==
    \E p \in Pair :
        \/ \E d \in Inputs, t \in Tenants : CreateCategory(p, d, t, 1)
        \/ \E n \in FocNames, t \in Tenants : FindOrCreateCategoryByName(p, n, t)
        \/ \E rnd \in RandomDraws : FindOrCreateInsert(p, rnd, 1)
        \/ \E e \in StoreErrors : FindOrCreateInsertFails(p, e)
        \/ FindOrCreateRecover(p)

SpecFault == Init /\ [][NextFault]_vars

\* Client 1 lists tenant A page by page while client 2 creates and deletes rows of
\* tenant A between its two reads.
NextPageRace ==
    \/ \E s \in Searches, g \in Pages, z \in PageSizes : GetCategories(1, s, g, z, "A")
    \/ GetCategoriesCount(1)
    \/ GetCategoriesFindMany(1)
    \/ \E d \in Inputs, k \in {0, 1} : CreateCategory(2, d, "A", k)
    \/ \E i \in Ids : DeleteCategory(2, i, "A")
    \/ DeleteCategoryWrite(2)

SpecPageRace == Init /\ [][NextPageRace]_vars

(* ------------------------------- properties ---------------------------- *)

\* the rows of tenant t named n, case-insensitively
Named(t, n) == {r \in rows : r.tenantId = t /\ EqualsInsensitive(r.nome, n)}

\* p has finished a findOrCreateCategoryByName call whose name is not blank
FocDone(p) == pc[p] = "done" /\ op[p] = "findOrCreate" /\ ~Blank(arg[p].nome)

\* the two calls resolve the same (tenant, name)
SameKey(p, q) ==
    /\ arg[p].tenantId = arg[q].tenantId
    /\ EqualsInsensitive(Trim(arg[p].nome), Trim(arg[q].nome))

\* C1: when find-or-create calls for the same tenant and name race and nothing else
\* runs, every finished call has returned an id and no error, the id is that of the
\* one row of that tenant and name, and so all the calls return the same id.
C1_RaceOneRow ==
    /\ \A p \in Procs :
          /\ pc[p] # "fallback"
          /\ FocDone(p) =>
                /\ ret[p].kind = "id"
                /\ Cardinality(Named(arg[p].tenantId, Trim(arg[p].nome))) = 1
                /\ \E r \in Named(arg[p].tenantId, Trim(arg[p].nome)) : r.id = ret[p].id
    /\ \A p, q \in Procs : FocDone(p) /\ FocDone(q) /\ SameKey(p, q) => ret[p].id = ret[q].id

\* two calls for the same key have finished: one inserted, the other lost the race
\* at the insert and recovered the winner's row
C1_Witness ==
    \E p, q \in Procs :
        /\ p # q /\ FocDone(p) /\ FocDone(q) /\ SameKey(p, q)
        /\ calls[p] = <<"findFirst", "create">>
        /\ calls[q] = <<"findFirst", "create", "findFirst">>
        /\ ret[q].kind = "id"

\* C2: in every reachable state no two rows of the same tenant have names that are
\* equal when compared case-insensitively (and no two rows share an id).
C2_UniqueNames ==
    \A r1, r2 \in rows :
        r1 # r2 =>
            /\ r1.id # r2.id
            /\ ~(r1.tenantId = r2.tenantId /\ ToLower(r1.nome) = ToLower(r2.nome))

\* the table holds two rows of one tenant and a write that would have made their
\* names collide has been refused
C2_Witness ==
    /\ \E r1, r2 \in rows : r1 # r2 /\ r1.tenantId = r2.tenantId
    /\ \E p \in Procs :
          pc[p] = "done" /\ op[p] = "updateCategory" /\ ret[p] = Threw("P2002")

\* the string consists of white space only (it may be empty)
AllSpaces(n) == \A i \in DOMAIN n : n[i] = " "

\* C5: updateCategory and deleteCategory called with an id that no row of the
\* caller's tenant has (no such row, or a row of another tenant) throw the not-found
\* error at once, and that step leaves the table unchanged.
C5_NotFoundNoMutation ==
    [][ \A p \in Procs :
          LET a == arg'[p] IN
          /\ pc[p] \in {"idle", "done"}
          /\ op'[p] \in {"updateCategory", "deleteCategory"}
          /\ ~(\E r \in rows : r.id = a.id /\ r.tenantId = a.tenantId)
          /\ \/ UpdateCategory(p, a.id, Input(a.nome, a.cor, a.descricao), a.tenantId)
             \/ DeleteCategory(p, a.id, a.tenantId)
          => /\ pc'[p] = "done"
             /\ ret'[p].kind = "error" /\ ret'[p].err = NotFoundMsg
             /\ calls'[p] = <<"findFirst">>
             /\ rows' = rows ]_vars

\* an update and a delete have each been refused for a row that exists in the other
\* tenant, and the row is still there
C5_Witness ==
    \E p, q \in Procs, r \in rows :
        /\ pc[p] = "done" /\ op[p] = "updateCategory" /\ ret[p] = Threw(NotFoundMsg)
        /\ pc[q] = "done" /\ op[q] = "deleteCategory" /\ ret[q] = Threw(NotFoundMsg)
        /\ arg[p].id = r.id /\ arg[p].tenantId # r.tenantId
        /\ arg[q].id = r.id /\ arg[q].tenantId # r.tenantId

\* C8: no step changes the id or the tenantId of a row: a row keeps both from its
\* creation until it is deleted, a new row gets an id no row ever had, and the write
\* of updateCategory changes nothing but nome, cor and descricao of the row with the
\* given id.
C8_IdAndTenantKept ==
    [][ /\ \A r \in rows, r2 \in rows' :
              /\ r2.id = r.id => r2.tenantId = r.tenantId /\ r2.criadoEm = r.criadoEm
              /\ r2.criadoEm = r.criadoEm => r2.id = r.id
        /\ \A r2 \in rows' : (\A r \in rows : r.id # r2.id) => r2.id \in fresh
        /\ \A p \in Procs :
              UpdateCategoryWrite(p) =>
                  /\ {r.id : r \in rows'} = {r.id : r \in rows}
                  /\ \A r \in rows : r.id # arg[p].id => r \in rows' ]_vars

\* an update has rewritten one of two rows
C8_Witness ==
    \E p \in Procs :
        /\ pc[p] = "done" /\ op[p] = "updateCategory" /\ ret[p].kind = "row"
        /\ ret[p].categories[1] \in rows
        /\ ret[p].categories[1].nome = <<"b">>
        /\ ret[p].categories[1].cor = "#00FF00"
        /\ \E r \in rows : r.id # ret[p].id /\ r.tenantId = "A"
        /\ ret[p].categories[1].tenantId = "B"

\* C9: createCategory makes no lookup, and when another row of the tenant already has
\* the name (case-insensitively) the violation P2002 reaches the caller as it is: no
\* lookup follows, no id is returned and the table is unchanged.
C9_CreateSurfacesViolation ==
    [][ \A p \in Procs, k \in {0, 1} :
          LET a == arg'[p] IN
          /\ pc[p] \in {"idle", "done"}
          /\ op'[p] = "createCategory"
          /\ CreateCategory(p, Input(a.nome, a.cor, a.descricao), a.tenantId, k)
          => /\ pc'[p] = "done"
             /\ calls'[p] = <<"create">>
             /\ (\E r \in rows : r.tenantId = a.tenantId /\ ToLower(r.nome) = ToLower(a.nome))
                   => /\ ret'[p] = Threw("P2002")
                      /\ rows' = rows ]_vars

\* a createCategory has been refused for a name that a row of the tenant has in
\* another letter case
C9_Witness ==
    \E p \in Procs, r \in rows :
        /\ pc[p] = "done" /\ op[p] = "createCategory" /\ ret[p] = Threw("P2002")
        /\ r.tenantId = arg[p].tenantId
        /\ r.nome # arg[p].nome /\ ToLower(r.nome) = ToLower(arg[p].nome)

\* the text has the needle as a substring, letter case ignored
HasSub(text, needle) ==
    \E i \in 1..Len(text), j \in 1..Len(text) :
        i <= j /\ ToLower(SubSeq(text, i, j)) = ToLower(needle)

\* the rows a getCategories call with arguments a is to list
Matching(a) ==
    {x \in rows :
        /\ x.tenantId = a.tenantId
        /\ \/ a.search \in {NoText, <<>>}
           \/ HasSub(x.nome, a.search)
           \/ x.descricao # NullText /\ HasSub(x.descricao, a.search)}

\* C10: for a getCategories call over a table that does not change during the call,
\* total is the number of matching rows of the tenant, totalPages is total / pageSize
\* rounded up, the page holds min(pageSize, max(0, total - (page-1)*pageSize)) rows,
\* which are the rows at the offsets from (page-1)*pageSize on in an order of
\* descending criadoEm, and a page after the last one is empty.
C10_Pagination ==
    \A p \in Procs :
        pc[p] = "done" /\ op[p] = "getCategories" =>
            LET a == arg[p]
                r == ret[p]
                c == ret[p].categories
                M == Matching(arg[p])
                skip == (arg[p].page - 1) * arg[p].pageSize
            IN  /\ r.kind = "page"
                /\ r.total = Cardinality(M)
                /\ r.totalPages * a.pageSize >= r.total
                /\ (r.totalPages - 1) * a.pageSize < r.total
                /\ Len(c) = Min(a.pageSize, Max(0, r.total - skip))
                /\ \A i \in DOMAIN c :
                      /\ c[i] \in M
                      /\ Cardinality({x \in M : x.criadoEm > c[i].criadoEm}) <= skip + i - 1
                      /\ Cardinality({x \in M : x.criadoEm >= c[i].criadoEm}) >= skip + i
                /\ \A i, j \in DOMAIN c : i # j => c[i] # c[j]
                /\ a.page > r.totalPages => c = <<>>

\* three rows match, the page size is 2, and the second page holds the remaining row
C10_Witness ==
    /\ pc[1] = "done" /\ op[1] = "getCategories"
    /\ arg[1].search = <<"W">> /\ arg[1].page = 2 /\ arg[1].pageSize = 2
    /\ ret[1].total = 3 /\ ret[1].totalPages = 2 /\ Len(ret[1].categories) = 1
    /\ Cardinality(rows) = 3

\* client 1 has got an id from findOrCreateCategoryByName and now calls it again
\* for the same tenant with the name n
FocAgain(n) ==
    /\ pc[1] = "done" /\ op[1] = "findOrCreate" /\ ret[1].kind = "id"
    /\ FindOrCreateCategoryByName(1, n, arg[1].tenantId)

\* the second call has returned the id of the first without writing, after its lookup
\* alone, and the tenant has exactly one row of that name
SameAgain ==
    /\ pc'[1] = "done"
    /\ ret'[1].kind = "id" /\ ret'[1].id = ret[1].id
    /\ calls'[1] = <<"findFirst">>
    /\ rows' = rows
    /\ Cardinality({r \in rows' : /\ r.tenantId = arg[1].tenantId
                                  /\ ToLower(r.nome) = ToLower(Trim(arg[1].nome))}) = 1

\* C3: when a client calls findOrCreateCategoryByName twice in a row with the same
\* name and tenant, the second call returns the id the first returned and inserts
\* nothing, and exactly one row of that tenant has the name (case-insensitively).
C3_TwiceSameId ==
    [][ FocAgain(arg[1].nome) => SameAgain ]_vars

\* the first call inserted the row and the second has found it
C3_Witness ==
    /\ pc[1] = "done" /\ op[1] = "findOrCreate" /\ ret[1].kind = "id"
    /\ calls[1] = <<"findFirst">>
    /\ \E r \in rows : r.id = ret[1].id /\ r.cor \in {DefaultColors[1], DefaultColors[10]}
    /\ Cardinality(rows) = 2

\* C4: a call made for a tenant returns rows of that tenant only, whatever rows of the
\* same name another tenant owns: every row in a result of getCategoryById,
\* getCategories and getAllCategories has the caller's tenantId, and the id that
\* findOrCreateCategoryByName returns is that of a row of the caller's tenant.
C4_TenantIsolation ==
    \A p \in Procs :
        arg[p].tenantId \in Tenants =>
            /\ \A i \in DOMAIN ret[p].categories :
                  ret[p].categories[i].tenantId = arg[p].tenantId
            /\ pc[p] = "done" /\ op[p] = "findOrCreate" /\ ret[p].kind = "id" =>
                  \E r \in rows : r.id = ret[p].id /\ r.tenantId = arg[p].tenantId

\* tenant A owns a row of the very name for which findOrCreateCategoryByName has
\* returned a row of tenant B
C4_Witness ==
    \E ra, rb \in rows :
        /\ ra.tenantId = "A" /\ rb.tenantId = "B" /\ ra.nome = rb.nome
        /\ pc[1] = "done" /\ op[1] = "findOrCreate" /\ arg[1].tenantId = "B"
        /\ ret[1].kind = "id" /\ ret[1].id = rb.id
        /\ ToLower(Trim(arg[1].nome)) = ToLower(rb.nome)

\* the second name differs from the first in letter case or outer white space only
Variant(n) == n # arg[1].nome /\ ToLower(Trim(n)) = ToLower(Trim(arg[1].nome))

\* the row the first call returned
Returned == {r \in rows : r.id = ret[1].id}

\* C6 (as stated): a call with a name and then a call with a variant of it return the
\* same id and create no second row, and the stored nome is the trimmed name of the
\* first call.
C6_Original ==
    [][ \A n \in FocNames :
          Variant(n) /\ FocAgain(n) =>
              /\ SameAgain
              /\ \A r \in Returned : r.nome = Trim(arg[1].nome) ]_vars

\* C6 (amended): a call with a name and then a call with a variant of it return the
\* same id and create no second row; the stored nome is the trimmed name of the first
\* call when the first call inserted the row (a row that existed before keeps its nome).
C6_VariantSameId ==
    [][ \A n \in FocNames :
          Variant(n) /\ FocAgain(n) =>
              /\ SameAgain
              /\ calls[1] = <<"findFirst", "create">> =>
                    \A r \in Returned : r.nome = Trim(arg[1].nome) ]_vars

\* "W " was resolved first and inserted the row "W"; "w" has then been resolved to it
C6_Witness ==
    /\ pc[1] = "done" /\ op[1] = "findOrCreate" /\ arg[1].nome = <<"w">>
    /\ ret[1].kind = "id" /\ calls[1] = <<"findFirst">>
    /\ \E r \in rows :
          /\ r.id = ret[1].id /\ r.nome = <<"W">> /\ r.tenantId = arg[1].tenantId
          /\ r.cor = DefaultColors[10]

\* C7: findOrCreateCategoryByName called with an empty or all-white-space name throws
\* the validation error in its first step, having made no store call, and the table
\* is unchanged.
C7_BlankRejected ==
    [][ \A n \in FocNames \cup {<<>>}, t \in Tenants :
          AllSpaces(n) /\ FindOrCreateCategoryByName(1, n, t) =>
              /\ pc'[1] = "done"
              /\ ret'[1].kind = "error" /\ ret'[1].err = ValidationMsg
              /\ calls'[1] = <<>>
              /\ rows' = rows ]_vars

\* a white-space name has been refused while the table holds rows
C7_Witness ==
    /\ pc[1] = "done" /\ op[1] = "findOrCreate" /\ arg[1].nome = <<" ">>
    /\ ret[1] = Threw(ValidationMsg) /\ calls[1] = <<>>
    /\ rows # {}

\* the rows of any tenant that a getCategories call with arguments a is to list
MatchingAny(a) ==
    {x \in rows :
        \/ a.search \in {NoText, <<>>}
        \/ HasSub(x.nome, a.search)
        \/ x.descricao # NullText /\ HasSub(x.descricao, a.search)}

FocReturns(p) ==
    /\ op'[p] = "findOrCreate" /\ pc'[p] = "done"
    /\ <<pc[p], op[p], arg[p], ret[p], calls[p]>> # <<pc'[p], op'[p], arg'[p], ret'[p], calls'[p]>>
    /\ ~AllSpaces(arg'[p].nome)

\* the call of p returns the id of a row that is in the table as it returns, belongs
\* to the caller's tenant and has the requested name, case-insensitively
ReturnsValidId(p) ==
    /\ ret'[p].kind = "id"
    /\ \E r \in rows' :
          /\ r.id = ret'[p].id
          /\ r.tenantId = arg'[p].tenantId
          /\ ToLower(r.nome) = ToLower(Trim(arg'[p].nome))

\* C12 (as stated): under any interleaving with other calls, every
\* findOrCreateCategoryByName call with a valid name returns an id, never an error,
\* and the id is that of a row present at the return, in the caller's tenant and of
\* the requested name.
C12_Original ==
    [][ \A p \in Procs : FocReturns(p) => ReturnsValidId(p) ]_vars

\* C12 (amended): every id that findOrCreateCategoryByName returns is that of a row
\* present at the return, in the caller's tenant and of the requested name; a caller
\* with a valid name gets such an id, except that it gets the uniqueness violation
\* P2002 when its insert was refused and, the conflicting row having been deleted or
\* renamed meanwhile, neither recovery lookup found a row.
C12_ValidIdOrViolation ==
    [][ \A p \in Procs :
          FocReturns(p) =>
              \/ ReturnsValidId(p)
              \/ /\ ret'[p] = Threw("P2002")
                 /\ calls'[p] = <<"findFirst", "create", "findFirst", "findFirstExact">>
                 /\ rows' = rows
                 /\ ~ \E r \in rows :
                        r.tenantId = arg'[p].tenantId /\ r.nome = Trim(arg'[p].nome) ]_vars

\* a call lost its insert against a row made by createCategory and recovered its id
C12_Witness ==
    \E p \in Procs, r \in rows :
        /\ pc[p] = "done" /\ op[p] = "findOrCreate" /\ ret[p].kind = "id"
        /\ calls[p] = <<"findFirst", "create", "findFirst">>
        /\ r.id = ret[p].id /\ r.cor = "#FF0000" /\ r.tenantId = arg[p].tenantId

\* C13: when the insert of findOrCreateCategoryByName is refused with P2002 the call
\* does not fail there: it repeats the case-insensitive lookup in the caller's scope
\* and returns the id of a row it finds, else makes the exact lookup and returns the id
\* of a row that finds; it throws P2002 exactly when both lookups find nothing. The
\* recovery writes nothing and never returns to the insert.
C13_RecoverByLookup ==
    [][ \A p \in Procs :
          LET n == Trim(arg[p].nome)
              t == arg[p].tenantId
              insensitive == {r \in rows : r.tenantId = t /\ ToLower(r.nome) = ToLower(n)}
              exact == {r \in rows : r.tenantId = t /\ r.nome = n}
          IN  /\ pc[p] = "create" /\ pc'[p] # "create" /\ insensitive # {} =>
                    pc'[p] = "recover" /\ rows' = rows
              /\ pc[p] = "recover" /\ pc'[p] # "recover" =>
                    /\ rows' = rows
                    /\ calls'[p] = <<"findFirst", "create", "findFirst">>
                    /\ IF insensitive # {}
                       THEN /\ pc'[p] = "done" /\ ret'[p].kind = "id"
                            /\ \E r \in insensitive : r.id = ret'[p].id
                       ELSE pc'[p] = "fallback"
              /\ pc[p] = "fallback" /\ pc'[p] # "fallback" =>
                    /\ rows' = rows
                    /\ pc'[p] = "done"
                    /\ calls'[p] = <<"findFirst", "create", "findFirst", "findFirstExact">>
                    /\ IF exact # {}
                       THEN ret'[p].kind = "id" /\ \E r \in exact : r.id = ret'[p].id
                       ELSE ret'[p] = Threw("P2002") ]_vars

\* the repeated lookup found nothing (the winner's row was gone), and the exact lookup
\* has found a row that another call inserted after it
C13_Witness ==
    \E p \in Procs, r \in rows :
        /\ pc[p] = "done" /\ op[p] = "findOrCreate"
        /\ calls[p] = <<"findFirst", "create", "findFirst", "findFirstExact">>
        /\ ret[p].kind = "id" /\ r.id = ret[p].id /\ r.nome = Trim(arg[p].nome)

\* C14: when the insert of findOrCreateCategoryByName fails with an error other than
\* P2002, the call ends there with that very error: no recovery lookup is made, no id
\* is returned, and the call has left the table unchanged.
C14_OtherErrorsSurface ==
    [][ \A p \in Procs, e \in StoreErrors :
          pc[p] = "create" /\ e # "P2002" /\ FindOrCreateInsertFails(p, e) =>
              /\ pc'[p] = "done"
              /\ ret'[p].kind = "error" /\ ret'[p].err = e /\ ret'[p].id = 0
              /\ calls'[p] = <<"findFirst", "create">>
              /\ rows' = rows ]_vars

\* an insert has failed for want of a connection while a row of that very name, made
\* by the other client in the meantime, was in the table
C14_Witness ==
    \E p \in Procs, r \in rows :
        /\ pc[p] = "done" /\ op[p] = "findOrCreate" /\ ret[p] = Threw("P1001")
        /\ calls[p] = <<"findFirst", "create">>
        /\ r.tenantId = arg[p].tenantId /\ ToLower(r.nome) = ToLower(Trim(arg[p].nome))

\* C15: no step of an updateCategory or deleteCategory call made for a tenant changes
\* or removes a row of another tenant, however the check and the write of the call
\* interleave with the calls of other clients.
C15_NoCrossTenantWrite ==
    [][ \A p \in Procs :
          /\ op'[p] \in {"updateCategory", "deleteCategory"}
          /\ <<pc[p], op[p], arg[p], ret[p], calls[p]>> #
                <<pc'[p], op'[p], arg'[p], ret'[p], calls'[p]>>
          => \A r \in rows : r.tenantId # arg'[p].tenantId => r \in rows' ]_vars

\* a delete has gone through while the other client, past its check of the same row,
\* still waits to write, and a row of another tenant is in the table
C15_Witness ==
    \E p, q \in Procs, r \in rows :
        /\ pc[p] = "done" /\ op[p] = "deleteCategory" /\ ret[p].kind = "void"
        /\ pc[q] = "update" /\ arg[q].id = arg[p].id /\ arg[q].tenantId = arg[p].tenantId
        /\ r.tenantId # arg[p].tenantId

\* C16: when the row has been deleted by another call between the check and the write
\* of an updateCategory or deleteCategory call, the write ends the call with the
\* store's error for a missing record (not the not-found error, not a success), the
\* row is not created again and no row is changed.
C16_LostRowStoreError ==
    [][ \A p \in Procs :
          /\ pc[p] \in {"update", "delete"} /\ pc'[p] # pc[p]
          /\ ~ \E r \in rows : r.id = arg[p].id
          => /\ pc'[p] = "done"
             /\ ret'[p].kind = "error" /\ ret'[p].err = "P2025" /\ ret'[p].err # NotFoundMsg
             /\ rows' = rows ]_vars

\* an update and a delete of the same row passed their checks, the delete won, and the
\* update has ended with the store's error
C16_Witness ==
    \E p, q \in Procs :
        /\ pc[p] = "done" /\ op[p] = "updateCategory" /\ ret[p] = Threw("P2025")
        /\ calls[p] = <<"findFirst", "update">>
        /\ pc[q] = "done" /\ op[q] = "deleteCategory" /\ ret[q].kind = "void"
        /\ arg[q].id = arg[p].id
        /\ ~ \E r \in rows : r.id = arg[p].id

\* C17: when the first lookup of findOrCreateCategoryByName finds a row of the
\* caller's tenant with the requested name (case-insensitively), the call returns the
\* id of such a row at once: that lookup is its only store call, nothing is inserted
\* and every row, the one found included, stays as it is.
C17_FastPath ==
    [][ LET a == arg'[1]
            found == {r \in rows : /\ r.tenantId = a.tenantId
                                   /\ ToLower(r.nome) = ToLower(Trim(a.nome))}
        IN  /\ pc[1] \in {"idle", "done"} /\ op'[1] = "findOrCreate"
            /\ found # {}
            /\ FindOrCreateCategoryByName(1, a.nome, a.tenantId)
            => /\ pc'[1] = "done"
               /\ ret'[1].kind = "id" /\ \E r \in found : r.id = ret'[1].id
               /\ calls'[1] = <<"findFirst">>
               /\ rows' = rows /\ fresh' = fresh ]_vars

\* the name "w" has been resolved to the row "W" that createCategory had made with
\* its own colour, and the row still has that name and colour
C17_Witness ==
    /\ pc[1] = "done" /\ op[1] = "findOrCreate" /\ arg[1].nome = <<"w">>
    /\ ret[1].kind = "id" /\ calls[1] = <<"findFirst">>
    /\ \E r \in rows :
          /\ r.id = ret[1].id /\ r.nome = <<"W">> /\ r.cor = "#FF0000"
          /\ r.tenantId = arg[1].tenantId

\* the page and the total of a result agree
PageFitsTotal(r) ==
    Len(r.categories) = Min(r.pageSize, Max(0, r.total - (r.page - 1) * r.pageSize))

\* totalPages is total / pageSize rounded up
TotalPagesFit(r) ==
    r.totalPages * r.pageSize >= r.total /\ (r.totalPages - 1) * r.pageSize < r.total

\* C18 (as stated): in every result of getCategories, also when creates and deletes of
\* other callers fall between its two reads, the number of rows in categories is
\* min(pageSize, max(0, total - (page-1)*pageSize)) and totalPages is total / pageSize
\* rounded up.
C18_Original ==
    \A p \in Procs :
        pc[p] = "done" /\ op[p] = "getCategories" =>
            PageFitsTotal(ret[p]) /\ TotalPagesFit(ret[p])

\* C18 (amended): getCategories makes two separate reads, each of the table as it is
\* at that read: total is the number of matching rows at the count, categories the
\* requested page at the findMany. Every result has totalPages = total / pageSize
\* rounded up and at most pageSize rows; the number of rows is
\* min(pageSize, max(0, total - (page-1)*pageSize)) whenever what the first of the
\* two reads returned is still what the table yields at the second (so when no create
\* or delete falls between them), and may differ otherwise.
C18_TwoReads ==
    [][ LET a == arg[1]
            M == Matching(arg[1])
            r == ret'[1]
            c == ret'[1].categories
            skip == (arg[1].page - 1) * arg[1].pageSize
        IN  /\ GetCategoriesCount(1) =>
                  /\ r.total = Cardinality(M) /\ c = ret[1].categories
                  /\ TotalPagesFit(r) /\ Len(c) <= a.pageSize
                  /\ ret[1].categories \in FindManyPage(rows, a) => PageFitsTotal(r)
            /\ GetCategoriesFindMany(1) =>
                  /\ r.total = ret[1].total
                  /\ TotalPagesFit(r) /\ Len(c) <= a.pageSize
                  /\ Len(c) = Min(a.pageSize, Max(0, Cardinality(M) - skip))
                  /\ \A i \in DOMAIN c :
                        /\ c[i] \in M
                        /\ Cardinality({x \in M : x.criadoEm > c[i].criadoEm}) <= skip + i - 1
                        /\ Cardinality({x \in M : x.criadoEm >= c[i].criadoEm}) >= skip + i
                  /\ ret[1].total = Cardinality(M) => PageFitsTotal(r) ]_vars

\* a row was created between the two reads: the first page is empty and total is 1
C18_Witness ==
    /\ pc[1] = "done" /\ op[1] = "getCategories"
    /\ arg[1].page = 1 /\ ret[1].categories = <<>> /\ ret[1].total = 1
    /\ ret[1].totalPages = 1
    /\ calls[1] = <<"findMany", "count">>

====
